---- MODULE Spec2Model ----
(***************************************************************************)
(* Hybrid incentive/company matching pipeline                              *)
(* (src/Challenge_David/matching.py, llm_services.py, database.py).        *)
(*                                                                         *)
(* Python values are tagged records [t |-> <type>, ...]; a str is a        *)
(* sequence of one-character tokens so that lower() and the substring      *)
(* test `in` are computed, not assumed.  Floats that the pipeline handles  *)
(* (rule scores, semantic scores) are fixed-point integers in units of     *)
(* 1/Scale, the resolution of round(x, 4).                                 *)
(***************************************************************************)
EXTENDS Integers, Sequences, FiniteSets, TLC

VARIABLES
    incentives,            \* rows of table 'incentives' (query order = incentive_id order)
    companies,             \* rows of table 'companies'
    k,                     \* parameter k of find_and_store_matches
    stub,                  \* "none": the real model; otherwise a deterministic test double
    matches,               \* committed rows of table 'matches'
    pending,               \* Match objects added to the session, not yet committed
    pc,                    \* position of find_and_store_matches
    idx,                   \* index of the incentive the for-loop is at
    top_n_companies,       \* local: batch handed to the semantic scorer
    llm_scores,            \* local: what score_companies_for_incentive returned
    total_matches_found,   \* local counter
    ret,                   \* value returned by the last call of find_and_store_matches
    exc,                   \* exception that left the last call, "none" if it returned
    before,                \* history: rows present at entry of the run and not deleted since
    rerun,                 \* history: the table held rows when this run was entered
    db_log,                \* history: session calls (delete/add/commit) issued by this run
    scorer_calls,          \* history: calls of score_companies_for_incentive by this run
    added_rows,            \* history: Match objects this run passed to db.add
    call,                  \* arguments of a direct calculate_match_score invocation
    result                 \* its outcome

vars == <<incentives, companies, k, stub, matches, pending, pc, idx, top_n_companies,
          llm_scores, total_matches_found, ret, exc, before, rerun, db_log, scorer_calls,
          added_rows, call, result>>

dbvars == <<incentives, companies, k, stub, matches, pending, pc, idx, top_n_companies,
            llm_scores, total_matches_found, ret, exc, before, rerun, db_log, scorer_calls,
            added_rows>>

-----------------------------------------------------------------------------
(* Bounds of the model *)

MaxIncentives == 2
MaxK == 2
MaxResp == 2

(* round(score / max_score, 4): four decimals *)
Scale == 10000

-----------------------------------------------------------------------------
(* Python values *)

PyNone == [t |-> "None"]
PyAbsent == [t |-> "absent"]          \* a key a dict does not hold
PyStr(s) == [t |-> "str", s |-> s]
PyInt(n) == [t |-> "int", n |-> n]
PyFloat(n) == [t |-> "float", n |-> n]   \* n in units of 1/Scale
PyCode(c) == [t |-> "str", code |-> c]   \* a str used only as an identifier
PyList(l) == [t |-> "list", l |-> l]
PyDict(d) == [t |-> "dict", d |-> d]

Returned(v) == [exc |-> "none", v |-> v]
Raised(e) == [exc |-> e, v |-> PyNone]

(* str.lower() on one character *)
LowerChar(c) ==
    CASE c = "A" -> "a" [] c = "B" -> "b" [] c = "C" -> "c" [] c = "D" -> "d"
      [] c = "E" -> "e" [] c = "F" -> "f" [] c = "G" -> "g" [] c = "H" -> "h"
      [] c = "I" -> "i" [] c = "J" -> "j" [] c = "K" -> "k" [] c = "L" -> "l"
      [] c = "M" -> "m" [] c = "N" -> "n" [] c = "O" -> "o" [] c = "P" -> "p"
      [] c = "Q" -> "q" [] c = "R" -> "r" [] c = "S" -> "s" [] c = "T" -> "t"
      [] c = "U" -> "u" [] c = "V" -> "v" [] c = "W" -> "w" [] c = "X" -> "x"
      [] c = "Y" -> "y" [] c = "Z" -> "z"
      [] c = "A~" -> "a~" [] c = "A'" -> "a'"
      [] OTHER -> c

Lower(s) == [i \in 1..Len(s) |-> LowerChar(s[i])]

(* needle in hay *)
Contains(hay, needle) ==
    \E i \in 0..(Len(hay) - Len(needle)) : SubSeq(hay, i + 1, i + Len(needle)) = needle

(* dict.get(key): None when the key is missing *)
DictGet(d, key) == IF d.d[key].t = "absent" THEN PyNone ELSE d.d[key]

(* string literals of matching.py *)
s_nacional == <<"n","a","c","i","o","n","a","l">>
s_unknown == <<"u","n","k","n","o","w","n">>
s_nao_aplicavel == <<"n","a~","o"," ","a","p","l","i","c","a'","v","e","l">>
s_pme == <<"p","m","e">>
s_grande == <<"g","r","a","n","d","e">>

-----------------------------------------------------------------------------
(* Text columns and json.loads *)

(* a Text/String column value: SQL NULL is Python None *)
JsonText(doc) == [t |-> "text", raw |-> "json", doc |-> doc]
GarbageText == [t |-> "text", raw |-> "garbage", doc |-> PyNone]
EmptyText == [t |-> "text", raw |-> "empty", doc |-> PyNone]

(* truth value of a column value: None and '' are falsy *)
Truthy(x) == x.t = "text" /\ x.raw # "empty"

(* json.loads(x): TypeError on None, JSONDecodeError on text that is not JSON *)
json_loads(x) ==
    IF x.t # "text" THEN Raised("TypeError")
    ELSE IF x.raw # "json" THEN Raised("JSONDecodeError")
    ELSE Returned(x.doc)

SeqElems(l) == {l[i] : i \in 1..Len(l)}

(* set.update(v): the elements iterating v yields; TypeError if v is not iterable *)
IterElems(v) ==
    CASE v.t = "list" -> Returned(SeqElems(v.l))
      [] v.t = "str" -> Returned(SeqElems(v.s))
      [] OTHER -> Raised("TypeError")

-----------------------------------------------------------------------------
(* calculate_match_score, matching.py:6-55 *)

weights_location_20 == [cae |-> 50, location |-> 20, size |-> 20]

weights == [cae |-> 50, location |-> 30, size |-> 20]

max_score == 100

(* the element a None primary code contributes to company_caes *)
NoneCode == "<None>"

CodeOf(v) == IF v.t = "None" THEN NoneCode ELSE v.code

(* the company's code set without its secondary codes *)
company_caes_primary_only(company) == {CodeOf(company.cae_primary_code)}

(* lines 20-27: the company's code set; a secondary list that does not parse
   or is not iterable leaves the set at {primary} *)
company_caes(company) ==
    LET primary == {CodeOf(company.cae_primary_code)}
        loaded == json_loads(company.cae_secondary_codes)
        elems == IF loaded.exc = "none" THEN IterElems(loaded.v) ELSE loaded
    IN  IF Truthy(company.cae_secondary_codes) /\ elems.exc = "none"
        THEN primary \cup elems.v
        ELSE primary

(* lines 20-21 *)
incentive_caes(incentive_details) ==
    LET caes_value == DictGet(incentive_details, "caes")
    IN  IF caes_value.t = "list" THEN SeqElems(caes_value.l) ELSE {}

(* lines 28-31 *)
cae_points(incentive_details, company) ==
    IF incentive_caes(incentive_details) = {} THEN weights.cae
    ELSE IF company_caes(company) \cap incentive_caes(incentive_details) # {} THEN weights.cae
    ELSE 0

(* line 36: "nacional" in incentive_loc *)
is_national_equal(incentive_loc) == incentive_loc = s_nacional

is_national(incentive_loc) == Contains(incentive_loc, s_nacional)

(* lines 33-39 *)
location_points(incentive_details, company) ==
    LET location_value == DictGet(incentive_details, "geographic_location")
        incentive_loc == IF location_value.t = "str" THEN Lower(location_value.s) ELSE <<>>
        company_city == IF company.city.t = "str" /\ company.city.s # <<>>
                        THEN Lower(company.city.s) ELSE Lower(s_unknown)
    IN  IF is_national(incentive_loc) \/ incentive_loc = <<>> THEN weights.location
        ELSE IF company_city # s_unknown /\ Contains(incentive_loc, company_city)
             THEN weights.location
        ELSE 0

(* line 44: is_pme = 0 < employees < 250 *)
is_pme_upto_250(employees) == 0 < employees /\ employees <= 250

is_pme(employees) == 0 < employees /\ employees < 250

(* line 45 *)
is_large(employees) == employees >= 250

(* lines 41-53; employees is an int here *)
size_points(incentive_details, company) ==
    LET dimension_value == DictGet(incentive_details, "dimension")
        incentive_dim == IF dimension_value.t = "str" THEN Lower(dimension_value.s)
                         ELSE s_nao_aplicavel
        employees == company.latest_number_of_employees.n
        pme == Contains(incentive_dim, s_pme)
        grande == Contains(incentive_dim, s_grande)
    IN  IF Contains(incentive_dim, s_nao_aplicavel) \/ incentive_dim = <<>> THEN weights.size
        ELSE IF pme /\ ~grande /\ is_pme(employees) THEN weights.size
        ELSE IF grande /\ ~pme /\ is_large(employees) THEN weights.size
        ELSE IF pme /\ grande /\ (is_pme(employees) \/ is_large(employees)) THEN weights.size
        ELSE 0

(* round(score / max_score, 4) in units of 1/Scale *)
Round4(score, max) == (2 * score * Scale + max) \div (2 * max)

calculate_match_score(incentive_details, company) ==
    IF incentive_details.t # "dict" THEN Raised("AttributeError")       \* line 20: .get
    ELSE IF company.latest_number_of_employees.t # "int"
         THEN Raised("TypeError")                                       \* line 44: 0 < None
    ELSE Returned(PyFloat(Round4(cae_points(incentive_details, company)
                                 + location_points(incentive_details, company)
                                 + size_points(incentive_details, company), max_score)))

-----------------------------------------------------------------------------
(* Input catalogues for direct calls of calculate_match_score *)

S_Nacional == <<"N","a","c","i","o","n","a","l">>
S_LisboaPorto == <<"L","i","s","b","o","a"," ","e"," ","P","o","r","t","o">>
S_Norte == <<"N","o","r","t","e">>
S_TerritorioNacional == <<"T","e","r","r","i","t","o","r","i","o"," ","N","a","c","i","o","n","a","l">>
S_Lisboa == <<"L","i","s","b","o","a">>
S_Porto == <<"P","o","r","t","o">>
S_Unknown == <<"U","n","k","n","o","w","n">>
S_PME == <<"P","M","E">>
S_Grandes == <<"G","r","a","n","d","e","s"," ","E","m","p","r","e","s","a","s">>
S_PMEGrandes == <<"P","M","E"," ","e"," ","G","r","a","n","d","e","s"," ","E","m","p","r","e","s","a","s">>
S_NaoAplicavel == <<"N","a~","o"," ","a","p","l","i","c","a'","v","e","l">>
S_Error == <<"E","r","r","o","r">>
S_text == <<"t","e","x","t">>

CaesValues == {PyAbsent, PyList(<<>>), PyList(<<"62">>), PyList(<<"62", "63">>), PyStr(<<"6","2">>)}

LocationValues == {PyAbsent, PyStr(<<>>), PyStr(S_Nacional), PyStr(S_LisboaPorto),
                   PyStr(S_Norte), PyStr(S_TerritorioNacional), PyStr(S_Unknown), PyInt(1)}

DimensionValues == {PyAbsent, PyStr(<<>>), PyStr(S_PME), PyStr(S_Grandes),
                    PyStr(S_PMEGrandes), PyStr(S_NaoAplicavel), PyStr(S_Error)}

Details(caes, loc, dim, obj) ==
    PyDict([caes |-> caes, geographic_location |-> loc, dimension |-> dim,
            object |-> obj, criterios |-> PyStr(S_text)])

DetailsValues ==
    {Details(c, l, d, PyStr(S_text)) : c \in CaesValues, l \in LocationValues, d \in DimensionValues}
    \cup {PyNone, PyList(<<>>), PyInt(1)}

Company(nif, primary, secondary, city, employees) ==
    [nif_code |-> nif, cae_primary_code |-> primary, cae_secondary_codes |-> secondary,
     city |-> city, latest_number_of_employees |-> employees]

CompanyValues ==
    {Company("501", p, s, c, e) :
        p \in {PyCode("62"), PyCode("41"), PyNone},
        s \in {PyNone, EmptyText, GarbageText, JsonText(PyList(<<"62">>)), JsonText(PyInt(5))},
        c \in {PyNone, PyStr(<<>>), PyStr(S_Lisboa), PyStr(S_Porto), PyStr(S_Unknown)},
        e \in {PyNone, PyInt(-1), PyInt(0), PyInt(10), PyInt(249), PyInt(250)}}

NoCall == [details |-> PyNone, company |-> PyNone]
NotCalled == [exc |-> "not called", v |-> PyNone]

-----------------------------------------------------------------------------
(* Sequences *)

Take(s, n) == SubSeq(s, 1, IF n < Len(s) THEN n ELSE Len(s))

Tuple(f) == [i \in 1..Len(f) |-> f[i]]

(* the least index in S, or otherwise if S is empty *)
FirstIndex(S, otherwise) ==
    IF S = {} THEN otherwise ELSE CHOOSE i \in S : \A j \in S : i <= j

InsertAt(x, s, p) == SubSeq(s, 1, p - 1) \o <<x>> \o SubSeq(s, p, Len(s))

InsertDescUnstable(x, s) ==
    InsertAt(x, s, FirstIndex({i \in 1..Len(s) : ~(s[i].key > x.key)}, Len(s) + 1))

(* sorted(s, key=..., reverse=True) on a sequence of [key, val] pairs is
   stable: equal keys keep their order.  Inserting the elements in order, each
   before the first element with a smaller key and after its equals, gives
   that result. *)
InsertDesc(x, s) ==
    InsertAt(x, s, FirstIndex({i \in 1..Len(s) : ~(s[i].key >= x.key)}, Len(s) + 1))

(* the elements s[lo..hi] inserted one after the other, in order, into acc;
   the test on lower only makes the lower half be computed before the upper
   half is entered (lower holds s[lo] at least) *)
RECURSIVE InsertRange(_, _, _, _)
InsertRange(s, lo, hi, acc) ==
    IF lo > hi THEN acc
    ELSE IF lo = hi THEN InsertDesc(s[lo], acc)
    ELSE LET lower == InsertRange(s, lo, (lo + hi) \div 2, acc)
         IN  IF lower = <<>> THEN <<>>
             ELSE InsertRange(s, (lo + hi) \div 2 + 1, hi, lower)

sorted_reverse(s) == InsertRange(s, 1, Len(s), <<>>)

(* the exception of the first element of s that raises, "none" if none does *)
FirstRaise(s) ==
    LET at == FirstIndex({i \in 1..Len(s) : s[i].exc # "none"}, 0)
    IN  IF at = 0 THEN "none" ELSE s[at].exc

-----------------------------------------------------------------------------
(* Database contents, database.py:10-78 *)

Incentive(id, ai) == [incentive_id |-> id, ai_description |-> ai]

Match(incentive_id, company_nif, score) ==
    [incentive_id |-> incentive_id, company_nif |-> company_nif, score |-> score]

AI_all == JsonText(Details(PyList(<<>>), PyStr(S_Nacional), PyStr(<<>>), PyStr(S_text)))
AI_62 == JsonText(Details(PyList(<<"62">>), PyStr(S_LisboaPorto), PyStr(S_PME), PyStr(S_text)))
AI_noobject == JsonText(Details(PyList(<<>>), PyStr(S_Nacional), PyStr(<<>>), PyAbsent))
AI_list == JsonText(PyList(<<>>))

AiDescriptions == {AI_all, AI_62, AI_noobject, AI_list, GarbageText, PyNone}

IncentiveTables ==
    UNION {{[i \in 1..n |-> Incentive(i, ai[i])] : ai \in [1..n -> AiDescriptions]} :
           n \in 0..MaxIncentives}

CompanyA == Company("501", PyCode("62"), JsonText(PyList(<<>>)), PyStr(S_Lisboa), PyInt(10))
CompanyB == Company("502", PyCode("41"), JsonText(PyList(<<"42">>)), PyStr(S_Unknown), PyInt(300))


-----------------------------------------------------------------------------
(* score_companies_for_incentive, llm_services.py:137-168 *)

(* what model.generate_content(prompt) does: raise (error, timeout) or return text *)
ReplyRaises == [raises |-> TRUE, text |-> GarbageText]
ReplyText(text) == [raises |-> FALSE, text |-> text]

Entry(nif, score) == PyDict([nif |-> PyCode(nif), score |-> score])

(* line 168: a zero score for every company of the batch *)
zero_scores(companies_batch) ==
    PyList([i \in 1..Len(companies_batch) |-> Entry(companies_batch[i].nif_code, PyFloat(0))])

(* lines 142-144 raise outside the try; lines 162-168 catch everything *)
score_companies_for_incentive(incentive, companies_batch, reply) ==
    LET structured_data == json_loads(incentive.ai_description)
    IN  IF structured_data.exc # "none" THEN structured_data
        ELSE IF structured_data.v.t # "dict" THEN Raised("TypeError")
        ELSE IF structured_data.v.d.object.t = "absent" THEN Raised("KeyError")
        ELSE IF structured_data.v.d.criterios.t = "absent" THEN Raised("KeyError")
        ELSE IF reply.raises THEN Returned(zero_scores(companies_batch))
        ELSE IF json_loads(reply.text).exc # "none" THEN Returned(zero_scores(companies_batch))
        ELSE json_loads(reply.text)

-----------------------------------------------------------------------------
(* find_and_store_matches, matching.py:57-114 *)

N == 50

(* MIN_RULE_SCORE = 0.1 in units of 1/Scale *)
MIN_RULE_SCORE == 1000

(* a companies table longer than N: CompanyB, CompanyA, then companies in
   Lisboa with 10 employees whose primary code is 41 (odd rows) or 62 (even
   rows) *)
ManyCompanies ==
    [i \in 1..(N + 3) |->
        IF i = 1 THEN CompanyB
        ELSE IF i = 2 THEN CompanyA
        ELSE Company(ToString(500 + i), PyCode(IF i % 2 = 0 THEN "62" ELSE "41"),
                     JsonText(PyList(<<>>)), PyStr(S_Lisboa), PyInt(10))]

CompanyTables ==
    {<<>>, <<CompanyA>>, <<CompanyB>>, <<CompanyA, CompanyB>>, <<CompanyB, CompanyA>>,
     ManyCompanies}

(* line 92: [:N] *)
first_N_plus_one(s) == Take(s, N + 1)

first_N(s) == Take(s, N)

(* lines 90-93: Returned(top_n_companies), or the exception calculate_match_score raised *)
rule_stage(incentive_details, all_companies) ==
    LET outcomes == [i \in 1..Len(all_companies) |->
                        calculate_match_score(incentive_details, all_companies[i])]
        scores == [i \in 1..Len(all_companies) |->
                        [key |-> outcomes[i].v.n, val |-> all_companies[i]]]
        filtered_scores == SelectSeq(Tuple(scores), LAMBDA item : item.key > MIN_RULE_SCORE)
        top_n == first_N(sorted_reverse(filtered_scores))
    IN  IF FirstRaise(Tuple(outcomes)) # "none" THEN Raised(FirstRaise(Tuple(outcomes)))
        ELSE Returned([i \in 1..Len(top_n) |-> top_n[i].val])

(* bool(x) *)
PyTruthy(x) ==
    CASE x.t = "None" -> FALSE
      [] x.t = "list" -> x.l # <<>>
      [] OTHER -> TRUE

(* float(x) *)
float(x) ==
    CASE x.t = "float" -> Returned(x.n)
      [] x.t = "int" -> Returned(x.n * Scale)
      [] x.t = "str" -> Raised("ValueError")
      [] OTHER -> Raised("TypeError")

(* line 103: float(item['score']) > 0.00 *)
score_not_negative(x) == x >= 0

score_is_positive(x) == x > 0

(* line 104: [:k] *)
slice_all(s, kk) == s

slice_k(s, kk) == Take(s, kk)

(* float(item['score']) *)
item_score(item) ==
    IF item.t # "dict" THEN Raised("TypeError")
    ELSE IF item.d.score.t = "absent" THEN Raised("KeyError")
    ELSE float(item.d.score)

(* lines 102-108: Returned(the Match objects added for this incentive), or the
   exception that leaves the function; llm_scores is truthy here *)
top_k_matches(incentive, scores, kk) ==
    LET items == IF scores.t = "list" THEN scores.l ELSE <<>>
        outcomes == [i \in 1..Len(items) |-> item_score(items[i])]
        keyed == [i \in 1..Len(items) |-> [key |-> outcomes[i].v, val |-> items[i]]]
        llm_scores_filtered == SelectSeq(Tuple(keyed), LAMBDA item : score_is_positive(item.key))
        top_k_scores == slice_k(sorted_reverse(llm_scores_filtered), kk)
    IN  IF scores.t # "list" THEN Raised("TypeError")
        ELSE IF FirstRaise(Tuple(outcomes)) # "none" THEN Raised(FirstRaise(Tuple(outcomes)))
        ELSE Returned([i \in 1..Len(top_k_scores) |->
                        Match(incentive.incentive_id, top_k_scores[i].val.d.nif.code,
                              top_k_scores[i].key)])

-----------------------------------------------------------------------------
(* The external model: every reply the real service may give, or a
   deterministic test double *)

Nifs == {"501", "502"}

ScoreValues == {PyFloat(0), PyFloat(5000), PyFloat(8000), PyAbsent}

Entries == {Entry(n, v) : n \in Nifs, v \in ScoreValues}

S_error == <<"e","r","r","o","r">>

Payloads ==
    {PyList(l) : l \in UNION {[1..n -> Entries] : n \in 0..MaxResp}}
    \cup {PyNone, PyDict([error |-> PyStr(S_error)])}

Replies == {ReplyRaises, ReplyText(GarbageText)} \cup {ReplyText(JsonText(p)) : p \in Payloads}

Stubs == {"uniform", "ascending", "zero"}

(* a test double's reply: a function of the batch alone *)
StubReply(name, companies_batch) ==
    ReplyText(JsonText(PyList([i \in 1..Len(companies_batch) |->
        Entry(companies_batch[i].nif_code,
              CASE name = "uniform" -> PyFloat(8000)
                [] name = "ascending" -> PyFloat(IF i = 1 THEN 5000 ELSE 8000)
                [] OTHER -> PyFloat(0))])))

RepliesOf(name, companies_batch) ==
    IF name = "none" THEN Replies ELSE {StubReply(name, companies_batch)}

-----------------------------------------------------------------------------
(* Actions *)

NotReturned == [t |-> "unset"]

NoException == [type |-> "none", at |-> "none"]

(* line 69: if not incentives or not companies *)
not_enough_data_and(all_incentives, all_companies) == all_incentives = <<>> /\ all_companies = <<>>

not_enough_data(all_incentives, all_companies) == all_incentives = <<>> \/ all_companies = <<>>

Repeat(x, n) == [i \in 1..n |-> x]

(* line 74: db.query(Match).delete() *)
delete_none(rows) == rows

delete_all(rows) == <<>>

(* line 95: if not top_n_companies *)
never_empty(batch) == FALSE

no_candidates(batch) == batch = <<>>

(* database.py:81, sessionmaker(autocommit=False, autoflush=False): db.add
   writes nothing to the table before db.commit *)
add_commits_first(table, rows) == table \o Take(rows, 1)

add_uncommitted(table, rows) == table

(* line 108: total_matches_found += 1 for each Match added *)
count_incentive(total, added) == total + (IF added = <<>> THEN 0 ELSE 1)

count_added(total, added) == total + Len(added)

(* an exception leaves find_and_store_matches; the caller's finally closes the
   session (main.py:35-39, matching.py:119-123), which discards what was added *)
Raise(e) ==
    /\ pc' = "raised"
    /\ exc' = [type |-> e, at |-> pc]
    /\ pending' = <<>>
    /\ UNCHANGED <<incentives, companies, k, stub, matches, idx, top_n_companies, llm_scores,
                   total_matches_found, ret, before, rerun, db_log, added_rows, call, result>>

(* the for-loop moves to the next incentive, or ends *)
NextIncentive ==
    /\ idx' = idx + 1
    /\ pc' = IF idx + 1 > Len(incentives) THEN "commit" ELSE "filter"

(* lines 65-71: a new session, the two queries, the early return *)
Start ==
    /\ pc \in {"idle", "done", "raised", "crashed"}
    /\ before' = matches
    /\ rerun' = (matches # <<>>)
    /\ db_log' = <<>>
    /\ scorer_calls' = <<>>
    /\ added_rows' = <<>>
    /\ pending' = <<>>
    /\ idx' = 0
    /\ top_n_companies' = <<>>
    /\ llm_scores' = PyNone
    /\ total_matches_found' = 0
    /\ exc' = NoException
    /\ IF not_enough_data(incentives, companies)
       THEN pc' = "done" /\ ret' = PyNone
       ELSE pc' = "clear" /\ ret' = NotReturned
    /\ UNCHANGED <<incentives, companies, k, stub, matches, call, result>>

(* lines 73-80 *)
Clear ==
    /\ pc = "clear"
    /\ matches' = delete_all(matches)
    /\ before' = IF matches' = <<>> THEN <<>> ELSE before
    /\ db_log' = db_log \o <<"delete", "commit">>
    /\ total_matches_found' = 0
    /\ idx' = 1
    /\ pc' = IF incentives = <<>> THEN "commit" ELSE "filter"
    /\ UNCHANGED <<incentives, companies, k, stub, pending, top_n_companies, llm_scores,
                   ret, exc, rerun, scorer_calls, added_rows, call, result>>

(* lines 82-97: parse the criteria, rule-score every company, keep the top N *)
Filter ==
    /\ pc = "filter"
    /\ LET incentive_details == json_loads(incentives[idx].ai_description)
           stage == rule_stage(incentive_details.v, companies)
       IN  IF incentive_details.exc \in {"JSONDecodeError", "TypeError"}
           THEN /\ NextIncentive
                /\ UNCHANGED <<incentives, companies, k, stub, matches, pending,
                               top_n_companies, llm_scores, total_matches_found, ret, exc,
                               before, rerun, db_log, scorer_calls, added_rows, call, result>>
           ELSE IF stage.exc # "none" THEN Raise(stage.exc) /\ UNCHANGED scorer_calls
           ELSE /\ top_n_companies' = stage.v
                /\ IF no_candidates(stage.v) THEN NextIncentive ELSE pc' = "score" /\ idx' = idx
                /\ UNCHANGED <<incentives, companies, k, stub, matches, pending, llm_scores,
                               total_matches_found, ret, exc, before, rerun, db_log,
                               scorer_calls, added_rows, call, result>>

(* line 100 *)
ScoreCall ==
    /\ pc = "score"
    /\ scorer_calls' = Append(scorer_calls, [incentive_id |-> incentives[idx].incentive_id,
                                             size |-> Len(top_n_companies)])
    /\ \E reply \in RepliesOf(stub, top_n_companies) :
         LET r == score_companies_for_incentive(incentives[idx], top_n_companies, reply)
         IN  IF r.exc # "none" THEN Raise(r.exc)
             ELSE /\ llm_scores' = r.v
                  /\ pc' = "persist"
                  /\ UNCHANGED <<incentives, companies, k, stub, matches, pending, idx,
                                 top_n_companies, total_matches_found, ret, exc, before,
                                 rerun, db_log, added_rows, call, result>>

(* lines 102-111 *)
Persist ==
    /\ pc = "persist"
    /\ LET added == top_k_matches(incentives[idx], llm_scores, k)
       IN  IF ~PyTruthy(llm_scores)
           THEN /\ NextIncentive
                /\ UNCHANGED <<incentives, companies, k, stub, matches, pending,
                               top_n_companies, llm_scores, total_matches_found, ret, exc,
                               before, rerun, db_log, scorer_calls, added_rows, call, result>>
           ELSE IF added.exc # "none" THEN Raise(added.exc) /\ UNCHANGED scorer_calls
           ELSE /\ pending' = pending \o added.v
                /\ matches' = add_uncommitted(matches, added.v)
                /\ added_rows' = added_rows \o added.v
                /\ total_matches_found' = count_added(total_matches_found, added.v)
                /\ db_log' = db_log \o Repeat("add", Len(added.v))
                /\ NextIncentive
                /\ UNCHANGED <<incentives, companies, k, stub, top_n_companies,
                               llm_scores, ret, exc, before, rerun, scorer_calls, call, result>>

(* lines 113-114: the final commit; the function ends without a return statement *)
Commit ==
    /\ pc = "commit"
    /\ matches' = matches \o pending
    /\ pending' = <<>>
    /\ db_log' = db_log \o <<"commit">>
    /\ ret' = PyNone
    /\ pc' = "done"
    /\ UNCHANGED <<incentives, companies, k, stub, idx, top_n_companies, llm_scores,
                   total_matches_found, exc, before, rerun, scorer_calls, added_rows,
                   call, result>>

(* the process stops inside find_and_store_matches (killed, power loss): its
   locals and its session are gone, the table keeps what was committed *)
Crash ==
    /\ pc \in {"clear", "filter", "score", "persist", "commit"}
    /\ pc' = "crashed"
    /\ pending' = <<>>
    /\ idx' = 0
    /\ top_n_companies' = <<>>
    /\ llm_scores' = PyNone
    /\ total_matches_found' = 0
    /\ UNCHANGED <<incentives, companies, k, stub, matches, ret, exc, before, rerun, db_log,
                   scorer_calls, added_rows, call, result>>

Init ==
    /\ incentives \in IncentiveTables
    /\ companies \in CompanyTables
    /\ k \in 1..MaxK
    /\ stub \in {"none"} \cup Stubs
    /\ matches = <<>>
    /\ pending = <<>>
    /\ pc = "idle"
    /\ idx = 0
    /\ top_n_companies = <<>>
    /\ llm_scores = PyNone
    /\ total_matches_found = 0
    /\ ret = NotReturned
    /\ exc = NoException
    /\ before = <<>>
    /\ rerun = FALSE
    /\ db_log = <<>>
    /\ scorer_calls = <<>>
    /\ added_rows = <<>>
    /\ call = NoCall
    /\ result = NotCalled

Next == Start \/ Clear \/ Filter \/ ScoreCall \/ Persist \/ Commit \/ Crash

Spec == Init /\ [][Next]_vars

-----------------------------------------------------------------------------
(* Direct calls of calculate_match_score *)

InitScore ==
    /\ call \in [details : DetailsValues, company : CompanyValues]
    /\ result = NotCalled
    /\ incentives = <<>>
    /\ companies = <<>>
    /\ k = 1
    /\ stub = "none"
    /\ matches = <<>>
    /\ pending = <<>>
    /\ pc = "idle"
    /\ idx = 0
    /\ top_n_companies = <<>>
    /\ llm_scores = PyNone
    /\ total_matches_found = 0
    /\ ret = NotReturned
    /\ exc = NoException
    /\ before = <<>>
    /\ rerun = FALSE
    /\ db_log = <<>>
    /\ scorer_calls = <<>>
    /\ added_rows = <<>>

ScoreOnce ==
    /\ result = NotCalled
    /\ result' = calculate_match_score(call.details, call.company)
    /\ UNCHANGED <<call, dbvars>>

NextScore == ScoreOnce

SpecScore == InitScore /\ [][NextScore]_vars

-----------------------------------------------------------------------------
(* What a run is expected to persist, stated without the code's sort *)

RunCompleted == pc = "done" /\ incentives # <<>> /\ companies # <<>>

(* positions of a response list whose entry has a score > 0 *)
PositiveAt(l) == {j \in 1..Len(l) : l[j].d.score.t = "float" /\ l[j].d.score.n > 0}

(* number of positive entries that precede entry j in the ranking: a higher
   score first, and among equal scores the earlier position first *)
Rank(l, j) ==
    Cardinality({p \in PositiveAt(l) :
                    \/ l[p].d.score.n > l[j].d.score.n
                    \/ l[p].d.score.n = l[j].d.score.n /\ p < j})

NumSelected(l, kk) == IF Cardinality(PositiveAt(l)) < kk THEN Cardinality(PositiveAt(l)) ELSE kk

EntryRanked(l, r) == l[CHOOSE j \in PositiveAt(l) : Rank(l, j) = r - 1]

ExpectedRows(incentive_id, l, kk) ==
    [r \in 1..NumSelected(l, kk) |->
        Match(incentive_id, EntryRanked(l, r).d.nif.code, EntryRanked(l, r).d.score.n)]

(* the rows a run with a deterministic test double persists for incentive i *)
StubRows(i) ==
    LET parsed == json_loads(incentives[i].ai_description)
        batch == rule_stage(parsed.v, companies).v
    IN  IF parsed.exc # "none" \/ batch = <<>> THEN <<>>
        ELSE ExpectedRows(incentives[i].incentive_id,
                          StubReply(stub, batch).text.doc.l, k)

RECURSIVE StubTable(_)
StubTable(n) == IF n = 0 THEN <<>> ELSE StubTable(n - 1) \o StubRows(n)

RowsOf(rows, incentive_id) == {j \in 1..Len(rows) : rows[j].incentive_id = incentive_id}

IncentiveIds == {incentives[i].incentive_id : i \in 1..Len(incentives)}

-----------------------------------------------------------------------------
(* C1: after a completed run on non-empty inputs the Match table holds the
   rows of that run and nothing else: the rows that existed before the run
   are gone before the first row is added, the table has exactly as many rows
   as the run added, and with a deterministic scorer every completed run (the
   first or a repeated one) leaves the table that the inputs determine, so
   running twice gives what running once gives. *)
C1_TableIsLastRun ==
    /\ (pending # <<>> \/ total_matches_found > 0) => (before = <<>>)
    /\ (pending # <<>>) => (matches = <<>>)
    /\ RunCompleted =>
         /\ before = <<>>
         /\ pending = <<>>
         /\ Len(matches) = total_matches_found
         /\ \A j \in 1..Len(matches) : matches[j].incentive_id \in IncentiveIds
         /\ (stub # "none") => (matches = StubTable(Len(incentives)))

C1_Witness ==
    /\ RunCompleted
    /\ rerun
    /\ stub = "ascending"
    /\ Len(incentives) = 2
    /\ Len(matches) > 1

(* C2: after a completed run with parameter k, at most k rows reference any
   one incentive and every row has a score > 0. *)
C2_AtMostKPositive ==
    RunCompleted =>
        /\ \A i \in IncentiveIds : Cardinality(RowsOf(matches, i)) <= k
        /\ \A j \in 1..Len(matches) : matches[j].score > 0

(* the last response held more than k positive entries and a zero entry *)
C2_Witness ==
    /\ RunCompleted
    /\ stub = "none"
    /\ k = 1
    /\ Len(incentives) = 1
    /\ llm_scores.t = "list"
    /\ Len(llm_scores.l) = 2
    /\ llm_scores.l[1].d.score = PyFloat(0)
    /\ llm_scores.l[2].d.score = PyFloat(8000)
    /\ Len(matches) = 1

(* C3: the rows added for an incentive whose response is non-empty are the
   first k entries of the response after dropping the entries with score <= 0
   and ordering the rest by descending score, equal scores in the order the
   response lists them; each row carries the entry's semantic score. *)
C3_TopKOfResponse ==
    [][(pc = "persist" /\ pc' \notin {"raised", "crashed"} /\ PyTruthy(llm_scores))
        => /\ llm_scores.t = "list"
           /\ pending' = pending \o ExpectedRows(incentives[idx].incentive_id, llm_scores.l, k)
           /\ \A j \in PositiveAt(llm_scores.l) :
                 (Rank(llm_scores.l, j) >= k) =>
                    \A r \in (Len(pending) + 1)..Len(pending') :
                        pending'[r].score >= llm_scores.l[j].d.score.n]_vars

(* a tie between two companies with k = 1: the first listed one is kept *)
C3_Witness ==
    /\ pc = "commit"
    /\ k = 1
    /\ Len(incentives) = 1
    /\ llm_scores = PyList(<<Entry("502", PyFloat(8000)), Entry("501", PyFloat(8000))>>)
    /\ pending = <<Match(1, "502", 8000)>>

(* C4 as claimed: with zero incentives or zero companies the call returns 0
   and mutates nothing. *)
C4_ReturnsZero ==
    (pc = "done" /\ not_enough_data(incentives, companies)) =>
        /\ ret.t = "int" /\ ret.n = 0
        /\ db_log = <<>>
        /\ matches = before

(* C4 amended: with zero incentives or zero companies the call returns None
   and mutates nothing: no delete, no add, no commit is issued, and the table
   is the table the call found. *)
C4_NoMutation ==
    (pc = "done" /\ (incentives = <<>> \/ companies = <<>>)) =>
        /\ ret = PyNone
        /\ db_log = <<>>
        /\ pending = <<>>
        /\ total_matches_found = 0
        /\ matches = before

C4_Witness ==
    /\ pc = "done"
    /\ incentives # <<>>
    /\ companies = <<>>
    /\ ret = PyNone

(* C5 as claimed: whatever way the semantic scoring of a batch fails (the
   call raises, the reply is not JSON, the payload is not a list of entries
   with a score, the criteria lack the objective or eligibility text), the
   run does not raise: no exception leaves it from the scorer call or from
   the selection of its response. *)
C5_SemanticFailureDegrades ==
    (pc = "raised") => (exc.at \notin {"score", "persist"})

(* C6 as claimed: an incentive whose criteria record is absent or malformed
   is skipped and the error never reaches the caller: no exception leaves the
   run from the parse-and-rule-score step of an incentive. *)
C6_BadCriteriaSkipped ==
    (pc = "raised") => (exc.at # "filter")

(* C7 as claimed: after a completed run no two rows of the Match table have
   the same (incentive_id, company_nif), whatever the scorer returned. *)
C7_UniquePair ==
    RunCompleted =>
        \A i, j \in 1..Len(matches) :
            (i # j) => ~(/\ matches[i].incentive_id = matches[j].incentive_id
                         /\ matches[i].company_nif = matches[j].company_nif)

(* C8 as claimed: a run on non-empty inputs returns the number of rows it
   persisted. *)
C8_ReturnsCount ==
    RunCompleted => (ret.t = "int" /\ ret.n = Len(matches))

NumAdds == Cardinality({j \in 1..Len(db_log) : db_log[j] = "add"})

(* C8 amended: a run on non-empty inputs returns None; the number of rows it
   persisted is what it counts in total_matches_found: one per Match added,
   across all incentives, all of them committed. *)
C8_CountsPersisted ==
    RunCompleted =>
        /\ ret = PyNone
        /\ total_matches_found = NumAdds
        /\ total_matches_found = Len(matches)

C8_Witness ==
    /\ RunCompleted
    /\ stub = "none"
    /\ Len(incentives) = 2
    /\ total_matches_found = 3
    /\ Cardinality(RowsOf(matches, 1)) = 2
    /\ Cardinality(RowsOf(matches, 2)) = 1

-----------------------------------------------------------------------------
(* Direct calls *)

ScenarioDetails == Details(PyList(<<"62">>), PyStr(S_Nacional), PyStr(<<>>), PyStr(S_text))

(* company A of the scenario: primary code 62, 10 employees, Lisboa *)
IsScenarioA(c) ==
    /\ c.cae_primary_code = PyCode("62")
    /\ c.latest_number_of_employees = PyInt(10)
    /\ c.city = PyStr(S_Lisboa)

(* company B: primary code 41 and no secondary code, same other fields *)
IsScenarioB(c) ==
    /\ c.cae_primary_code = PyCode("41")
    /\ c.cae_secondary_codes \in {PyNone, EmptyText}
    /\ c.latest_number_of_employees = PyInt(10)
    /\ c.city = PyStr(S_Lisboa)

(* C9: a returned score is (50*industry + 30*location + 20*size)/100 with each
   indicator 0 or 1, hence in [0, 1]; in the scenario (codes ["62"], scope
   "Nacional", empty size class) company A scores 1.0 and company B 0.5. *)
C9_WeightedSum ==
    (result.exc = "none") =>
        /\ \E a, b, c \in {0, 1} : result.v.n * 100 = (50 * a + 30 * b + 20 * c) * Scale
        /\ 0 <= result.v.n /\ result.v.n <= Scale
        /\ (call.details = ScenarioDetails /\ IsScenarioA(call.company)) => result.v.n = Scale
        /\ (call.details = ScenarioDetails /\ IsScenarioB(call.company)) => 2 * result.v.n = Scale

C9_Witness ==
    /\ call.details = ScenarioDetails
    /\ IsScenarioB(call.company)
    /\ result = Returned(PyFloat(5000))

(* C10 as claimed: for every criteria mapping and every company record the
   call returns a score and never raises. *)
C10_Total ==
    (result # NotCalled /\ call.details.t = "dict") => (result.exc = "none")


-----------------------------------------------------------------------------
(* Claims about the three dimensions of calculate_match_score.  The points a
   call awarded for one dimension are its result minus the points of the
   other two. *)

ScoreReturned == result.exc = "none"

AwardedCae ==
    result.v.n * max_score
        - (location_points(call.details, call.company)
           + size_points(call.details, call.company)) * Scale

AwardedLocation ==
    result.v.n * max_score
        - (cae_points(call.details, call.company)
           + size_points(call.details, call.company)) * Scale

AwardedSize ==
    result.v.n * max_score
        - (cae_points(call.details, call.company)
           + location_points(call.details, call.company)) * Scale

(* the incentive's applicable codes as the criteria mapping lists them *)
ListedCodes ==
    LET v == call.details.d.caes
    IN  IF v.t = "list" THEN {v.l[i] : i \in DOMAIN v.l} ELSE {}

CodesListedOrAbsent == call.details.d.caes.t \in {"list", "absent"}

(* the company's codes: its primary code, if it has one, and the codes of a
   well-formed secondary list *)
CompanyCodes ==
    LET p == call.company.cae_primary_code
        sec == call.company.cae_secondary_codes
    IN  (IF p.t = "None" THEN {} ELSE {p.code})
        \cup (IF sec.t = "text" /\ sec.raw = "json" /\ sec.doc.t = "list"
              THEN {sec.doc.l[i] : i \in DOMAIN sec.doc.l} ELSE {})

(* C11: when the incentive's code list is empty or absent the call awards the
   industry weight 50 to every company; otherwise it awards 50 exactly when
   the company's primary code or one of its secondary codes is in the
   incentive's list, a missing or malformed secondary list counting as empty;
   in every other case it awards 0 for the dimension. *)
C11_IndustryDimension ==
    (ScoreReturned /\ CodesListedOrAbsent) =>
        /\ AwardedCae \in {0, 50 * Scale}
        /\ ListedCodes = {} => AwardedCae = 50 * Scale
        /\ ListedCodes # {} =>
              (AwardedCae = 50 * Scale <=> CompanyCodes \cap ListedCodes # {})

(* a company whose primary code is not listed receives the weight through its
   secondary codes *)
C11_Witness ==
    /\ ScoreReturned
    /\ call.details.d.caes = PyList(<<"62">>)
    /\ call.company.cae_primary_code = PyCode("41")
    /\ call.company.cae_secondary_codes = JsonText(PyList(<<"62">>))
    /\ AwardedCae = 50 * Scale

-----------------------------------------------------------------------------
(* location *)

Scope == call.details.d.geographic_location

City == call.company.city

ScopeIsText == Scope.t = "str" /\ Scope.s # <<>>

ScopeEmptyOrAbsent == Scope.t = "absent" \/ (Scope.t = "str" /\ Scope.s = <<>>)

CityInScope == ScopeIsText /\ City.t = "str" /\ Contains(Lower(Scope.s), Lower(City.s))

(* the company has a city, and it is not "unknown" *)
CityKnown == City.t = "str" /\ City.s # <<>> /\ Lower(City.s) # s_unknown

(* C12 as claimed: an empty or absent scope, or the scope "Nacional" in any
   letter case, awards the location weight 30 to every company; any other
   scope awards it exactly when the lower-cased city is a substring of the
   lower-cased scope, and never to a company without a known city. *)
C12_NationalIsTheValue ==
    (ScoreReturned /\ (ScopeIsText \/ ScopeEmptyOrAbsent)) =>
        /\ (ScopeEmptyOrAbsent \/ (ScopeIsText /\ Lower(Scope.s) = s_nacional))
              => AwardedLocation = 30 * Scale
        /\ (ScopeIsText /\ Lower(Scope.s) # s_nacional) =>
              (AwardedLocation = 30 * Scale <=> (CityKnown /\ CityInScope))

(* C12: an empty or absent scope, or a scope that contains "nacional" in any
   letter case, awards the location weight 30 to every company; any other
   scope awards it exactly when the company has a city other than "unknown"
   whose lower-cased name is a substring of the lower-cased scope; a company
   whose city is missing, empty or "Unknown" never receives it from such a
   scope. *)
C12_LocationDimension ==
    (ScoreReturned /\ (ScopeIsText \/ ScopeEmptyOrAbsent)) =>
        /\ AwardedLocation \in {0, 30 * Scale}
        /\ (ScopeEmptyOrAbsent \/ (ScopeIsText /\ Contains(Lower(Scope.s), s_nacional)))
              => AwardedLocation = 30 * Scale
        /\ (ScopeIsText /\ ~Contains(Lower(Scope.s), s_nacional)) =>
              (AwardedLocation = 30 * Scale <=> (CityKnown /\ CityInScope))

(* a company outside the scope's cities receives the weight from a scope that
   only contains the nationwide word *)
C12_Witness ==
    /\ ScoreReturned
    /\ Scope = PyStr(S_TerritorioNacional)
    /\ City = PyStr(S_Porto)
    /\ AwardedLocation = 30 * Scale

-----------------------------------------------------------------------------
(* size *)

Dimension == call.details.d.dimension

Employees == call.company.latest_number_of_employees.n

SmallOrMedium == 0 < Employees /\ Employees < 250

Large == Employees >= 250

Unconstrained == Dimension \in {PyStr(<<>>), PyStr(S_NaoAplicavel)}

OnlyPME == Dimension = PyStr(S_PME)

OnlyLarge == Dimension = PyStr(S_Grandes)

BothClasses == Dimension = PyStr(S_PMEGrandes)

(* C13: with an empty or "not applicable" size class every company receives
   the size weight 20; a class string naming only PME awards it exactly to
   the companies with 0 < employees < 250, one naming only large companies
   exactly to those with employees >= 250, one naming both exactly to those
   with employees > 0; a company with employees <= 0 receives it only in the
   unconstrained case. *)
C13_SizeDimension ==
    ScoreReturned =>
        /\ AwardedSize \in {0, 20 * Scale}
        /\ Unconstrained => AwardedSize = 20 * Scale
        /\ OnlyPME => (AwardedSize = 20 * Scale <=> SmallOrMedium)
        /\ OnlyLarge => (AwardedSize = 20 * Scale <=> Large)
        /\ BothClasses => (AwardedSize = 20 * Scale <=> Employees > 0)
        /\ (Employees <= 0 /\ (OnlyPME \/ OnlyLarge \/ BothClasses)) => AwardedSize = 0

(* a company of exactly 250 employees is large, not small/medium *)
C13_Witness ==
    /\ ScoreReturned
    /\ OnlyPME
    /\ Employees = 250
    /\ AwardedSize = 0


-----------------------------------------------------------------------------
(* Claims about the rule stage and the calls of the semantic scorer *)

(* the scorer is being, or has just been, called for incentives[idx] *)
BatchHanded == pc \in {"score", "persist"}

(* deterministic scores of the companies, in table order, for the incentive
   the loop is at *)
RuleScores ==
    [i \in 1..Len(companies) |->
        calculate_match_score(json_loads(incentives[idx].ai_description).v,
                              companies[i]).v.n] \o <<>>

EligibleOf(sc) == {i \in 1..Len(sc) : sc[i] > MIN_RULE_SCORE}

(* per company, the number of eligible companies that come before it: those
   with a higher score, and those with the same score earlier in the table *)
RuleRanks(sc) ==
    [i \in 1..Len(sc) |->
        Cardinality({j \in EligibleOf(sc) : sc[j] > sc[i] \/ (sc[j] = sc[i] /\ j < i)})] \o <<>>

ChosenOf(sc, rank) == {i \in EligibleOf(sc) : rank[i] < N}

(* C14: the batch handed to the semantic scorer holds, in order, the first
   N = 50 of the companies with deterministic score > 0.1 ranked by descending
   score, equal scores in table order; it holds no company with score <= 0.1,
   and no company left out scores strictly higher than one in the batch. *)
C14_BatchIsTopN ==
    BatchHanded =>
        LET sc == RuleScores
            rank == RuleRanks(sc)
            chosen == ChosenOf(sc, rank)
        IN  /\ Len(top_n_companies) = Cardinality(chosen)
            /\ Len(top_n_companies) <= N
            /\ \A i \in chosen : top_n_companies[rank[i] + 1] = companies[i]
            /\ \A i \in 1..Len(sc) :
                  sc[i] <= MIN_RULE_SCORE =>
                     \A r \in 1..Len(top_n_companies) : top_n_companies[r] # companies[i]
            /\ \A i \in (1..Len(sc)) \ chosen : \A j \in chosen : sc[i] <= sc[j]

(* more than N companies pass the threshold with two different scores: the
   batch is cut at N and eligible companies are left out *)
C14_Witness ==
    /\ pc = "score"
    /\ Len(top_n_companies) = N
    /\ top_n_companies[1] = CompanyA
    /\ LET sc == RuleScores
           chosen == ChosenOf(sc, RuleRanks(sc))
       IN  /\ EligibleOf(sc) \ chosen # {}
           /\ \E i, j \in chosen : sc[i] > sc[j]


(* the criteria of the i-th incentive do not parse *)
Unparseable(i) == json_loads(incentives[i].ai_description).exc # "none"

(* some company passes the rule stage of the i-th incentive *)
HasCandidate(i) ==
    LET criteria == json_loads(incentives[i].ai_description).v
    IN  \E j \in 1..Len(companies) :
           /\ calculate_match_score(criteria, companies[j]).exc = "none"
           /\ calculate_match_score(criteria, companies[j]).v.n > MIN_RULE_SCORE

CalledFor(i) == \E c \in 1..Len(scorer_calls) : scorer_calls[c].incentive_id = i

RowsFor(i) == \E r \in 1..Len(added_rows) : added_rows[r].incentive_id = i

(* C15: within a run the semantic scorer is called at most once per
   incentive, in iteration order, with a batch of 1..N companies; an
   incentive whose criteria do not parse or that has no rule-stage candidate
   is never passed to it and gets no Match row; so the calls never outnumber
   the incentives. *)
C15_CallsBounded ==
    /\ Len(scorer_calls) <= Len(incentives)
    /\ \A c \in 1..Len(scorer_calls) :
          /\ scorer_calls[c].size >= 1
          /\ scorer_calls[c].size <= N
          /\ \A e \in 1..(c - 1) :
                scorer_calls[e].incentive_id < scorer_calls[c].incentive_id
    /\ \A i \in 1..Len(incentives) :
          (Unparseable(i) \/ ~HasCandidate(i)) => (~CalledFor(i) /\ ~RowsFor(i))
    /\ \A i \in 1..Len(incentives) : RowsFor(i) => CalledFor(i)
    /\ RunCompleted => \A r \in 1..Len(matches) : CalledFor(matches[r].incentive_id)

(* a completed run over more than N companies: the first incentive does not
   parse, the second is scored once with a batch of exactly N *)
C15_Witness ==
    /\ RunCompleted
    /\ companies = ManyCompanies
    /\ Len(incentives) = 2
    /\ Unparseable(1)
    /\ scorer_calls = <<[incentive_id |-> 2, size |-> N]>>
    /\ matches # <<>>


-----------------------------------------------------------------------------
(* Claims about what is committed during a run *)

(* the run has passed its clear step and not reached the end of its final
   commit; it may have been interrupted there by an exception or a crash *)
AfterClear ==
    /\ db_log # <<>>
    /\ pc \in {"filter", "score", "persist", "commit", "raised", "crashed"}

(* C16 as claimed: clear and inserts are one unit of work, so while a run
   that found previous matches is past its clear step and has not committed
   its own rows, or has failed there, the committed table still holds the
   previous matches. *)
C16_OneUnitOfWork == (rerun /\ AfterClear) => matches # <<>>

(* the rows this run selected for the first p incentives *)
RowsUpTo(p) == SelectSeq(added_rows, LAMBDA row : row.incentive_id <= p)

(* C17: while a run is past its clear step and before the end of its final
   commit, and after an exception or a crash there, the committed table holds
   exactly the rows the run selected for the first p incentives, for some
   p >= 0: never part of one incentive's rows, never a later incentive's rows
   without an earlier one's. *)
C17_CommittedPrefix ==
    AfterClear => \E p \in 0..Len(incentives) : matches = RowsUpTo(p)

(* a crash after two rows were selected for the first incentive *)
C17_Witness ==
    /\ pc = "crashed"
    /\ db_log # <<>>
    /\ Len(added_rows) = 2
    /\ added_rows[1].incentive_id = 1
    /\ added_rows[2].incentive_id = 1
    /\ matches = <<>>

(* C18 as claimed: every row added for the incentive just processed names a
   company of the batch that was handed to the semantic scorer for it. *)
C18_RowsFromBatch ==
    (pc \in {"filter", "commit"} /\ idx > 1) =>
        \A r \in 1..Len(pending) :
            pending[r].incentive_id = incentives[idx - 1].incentive_id =>
                \E b \in 1..Len(top_n_companies) :
                    top_n_companies[b].nif_code = pending[r].company_nif

====
